---- MODULE Spec2Model ----
(***************************************************************************)
(* Keyboard recorder / playback engine of src-tauri/src/lib.rs.            *)
(*                                                                         *)
(* Execution contexts: the input listener thread (listen_keyboard), the    *)
(* hot-key dispatch thread (register_hotkey_action) and the host shell     *)
(* thread that invokes the four tauri commands.  Shared state: the two     *)
(* atomics IS_LISTENING and STOP_PLAYBACK, the mutex-protected RECORDER    *)
(* and THREAD_HANDLES.  Every access to an atomic or to the mutex is one   *)
(* step; thread-local work (sleeps, simulate calls, locals) is folded into *)
(* the neighbouring step.  The variables after "history" are not read by   *)
(* the program: they record what happened so that properties can say it.   *)
(***************************************************************************)
EXTENDS Integers, Sequences, FiniteSets, TLC

\* ---------------------------------------------------------------- bounds
MaxEvents == 3      \* key presses delivered by the OS listener
MaxTime   == 1      \* time stamps range over 0..MaxTime
MaxCalls  == 3      \* operations invoked by the shell and the hot keys together
MaxPending == 2     \* hot-key notifications waiting in the channel

\* ---------------------------------------------------------------- domains
Threads    == {"shell", "hotkey"}
EventKinds == {"KeyPress", "KeyRelease", "MouseMove", "Other"}
Chords     == {"record_hotkey", "stop_hotkey", "playback_hotkey"}
HotKeyStates == {"Pressed", "Released"}
Times      == 0..MaxTime
NoEvent    == [kind |-> "Other", time |-> 0, id |-> 0]

VARIABLES
    IS_LISTENING,     \* static AtomicBool
    STOP_PLAYBACK,    \* static AtomicBool
    RECORDER,         \* Recorder.events : Vec<Event>
    mutex,            \* holder of RECORDER's lock, or "free"
    THREAD_HANDLES,   \* "None" | "Some"
    listener,         \* position of the listener thread
    cur,              \* the event the callback is handling
    pc,               \* position of each calling thread
    op,               \* operation a calling thread runs / ran last
    ret,              \* value returned by the thread's last finished call
    events,           \* playback: local snapshot `events`
    idx,              \* playback: 1-based index of the loop's current event
    last_event_time,  \* playback: local `last_event_time`
    channel,          \* GlobalHotKeyEvent::receiver(): notifications sent, not yet received
    \* ---- history (not read by the program)
    nDelivered,       \* key presses delivered to callback so far
    nCalls,           \* operations invoked so far
    myCut,            \* start_listen: n = nDelivered when the call began, old = the
                      \* Recording was not empty then
    cut,              \* over the start_listen calls that returned: all = highest myCut.n,
                      \* old = highest myCut.n of a call with myCut.old
    floor,            \* playback: cut.old when the call began
    played,           \* playback: per synthesized event its id and the delay slept before it
    failedAt,         \* playback: first loop index whose simulate() returned Err, or 0
    haltedAt,         \* playback: loop index at which STOP_PLAYBACK was read true, or 0
    streak,           \* two stop_listen calls in a row, nothing else running: n is 1 while
                      \* the first runs, 2 once it returned, 3 and 4 likewise for the second
    stopDuring,       \* playback: a stop_listen began while this run was past its snapshot
    synthAfter,       \* playback: simulate() calls made after stopDuring became true
    window,           \* "open" from a start_listen return to the next stop_listen call,
                      \* "raced" when a start_listen began while another one was running
    pressLog,         \* key presses delivered while the window was open
    appended,         \* the events pushed to the Recording since it was last cleared
    readTrue          \* ids of the key presses whose callback read IS_LISTENING true since
                      \* the last start_listen call began

flags     == <<IS_LISTENING, STOP_PLAYBACK>>
lstVars   == <<listener, cur>>
callVars  == <<pc, op, ret>>
playVars  == <<events, idx, last_event_time>>
delivVars == <<nDelivered, pressLog>>
startHist == <<myCut, cut>>
runHist   == <<floor, played, failedAt, haltedAt, stopDuring, synthAfter>>
Shared    == <<IS_LISTENING, STOP_PLAYBACK, RECORDER>>
NoCut     == [n |-> 0, old |-> FALSE]
NoStreak  == [n |-> 0, first |-> FALSE, second |-> FALSE, st |-> << >>]
progVars == <<IS_LISTENING, STOP_PLAYBACK, RECORDER, mutex, THREAD_HANDLES,
              listener, cur, pc, op, ret, events, idx, last_event_time>>
otherHist == <<nDelivered, nCalls, myCut, cut, floor, played, failedAt, haltedAt,
               stopDuring, synthAfter, window, pressLog, streak>>
moreHist == <<appended, readTrue>>
histVars == <<otherHist, moreHist>>
vars == <<progVars, channel, histVars>>

\* ---------------------------------------------------------------- helpers
\* SystemTime::duration_since: Ok(later - earlier), Err when `earlier` is later.
duration_since(t, earlier) ==
    IF t >= earlier THEN [ok |-> TRUE, d |-> t - earlier]
                    ELSE [ok |-> FALSE, d |-> earlier - t]

\* Faulty variant: the Err case keeps the magnitude instead of Duration::default().
unwrap_or_magnitude(r) == r.d

\* Result::unwrap_or_default on a Result<Duration, _>.
unwrap_or_default(r) == IF r.ok THEN r.d ELSE 0

\* The states in which a start_listen call is between its first store and its return.
StartPcs == {"sl_listen", "sl_lock", "sl_clear", "sl_ret"}

\* The states in which a playback call is between its snapshot and its return.
PlayingPcs == {"pb_settle", "pb_check", "pb_sleep"}

Init ==
    /\ IS_LISTENING = FALSE
    /\ STOP_PLAYBACK = TRUE
    /\ RECORDER = << >>
    /\ mutex = "free"
    /\ THREAD_HANDLES = "None"
    /\ listener = "unspawned"
    /\ cur = NoEvent
    /\ pc = [t \in Threads |-> "unspawned"]
    /\ op = [t \in Threads |-> "none"]
    /\ ret = [t \in Threads |-> FALSE]
    /\ events = [t \in Threads |-> << >>]
    /\ idx = [t \in Threads |-> 0]
    /\ last_event_time = [t \in Threads |-> 0]
    /\ channel = << >>
    /\ nDelivered = 0
    /\ nCalls = 0
    /\ myCut = [t \in Threads |-> NoCut]
    /\ cut = [all |-> 0, old |-> 0]
    /\ floor = [t \in Threads |-> 0]
    /\ played = [t \in Threads |-> << >>]
    /\ failedAt = [t \in Threads |-> 0]
    /\ haltedAt = [t \in Threads |-> 0]
    /\ streak = NoStreak
    /\ stopDuring = [t \in Threads |-> FALSE]
    /\ synthAfter = [t \in Threads |-> 0]
    /\ window = "none"
    /\ pressLog = << >>
    /\ appended = << >>
    /\ readTrue = {}

\* ---------------------------------------------------------------- start-up
\* run(): init_setting() spawns both threads, the handles are stored, and the
\* tauri builder starts serving the commands.
run ==
    /\ THREAD_HANDLES = "None"
    /\ THREAD_HANDLES' = "Some"
    /\ listener' = "listening"
    /\ pc' = [t \in Threads |-> "idle"]
    /\ UNCHANGED <<IS_LISTENING, STOP_PLAYBACK, RECORDER, mutex, cur, op, ret,
                   events, idx, last_event_time, channel, histVars>>

\* ---------------------------------------------------------------- listener thread
\* Faulty variant: every arm of the match goes to record_event.
callback_record_all(kind, time) ==
    /\ listener = "listening"
    /\ nDelivered < MaxEvents
    /\ nDelivered' = nDelivered + 1
    /\ LET event == [kind |-> kind, time |-> time, id |-> nDelivered + 1] IN
       /\ listener' = "rec_load"
       /\ cur' = event
       /\ pressLog' = IF window = "open" THEN Append(pressLog, event)
                                        ELSE pressLog
    /\ streak' = NoStreak
    /\ UNCHANGED <<moreHist, flags, RECORDER, mutex, THREAD_HANDLES, channel, callVars, playVars,
                   nCalls, startHist, runHist, window>>

\* listen(callback) delivers one OS event: callback() matches on its kind.
\* KeyPress goes to _key_press_action -> record_event; the other arms are empty.
callback(kind, time) ==
    /\ listener = "listening"
    /\ IF kind = "KeyPress"
       THEN /\ nDelivered < MaxEvents
            /\ nDelivered' = nDelivered + 1
            /\ LET event == [kind |-> kind, time |-> time, id |-> nDelivered + 1] IN
               /\ listener' = "rec_load"
               /\ cur' = event
               /\ pressLog' = IF window = "open" THEN Append(pressLog, event)
                                                ELSE pressLog
            /\ streak' = NoStreak
       ELSE UNCHANGED <<listener, cur, nDelivered, pressLog, streak>>
    /\ UNCHANGED <<moreHist, flags, RECORDER, mutex, THREAD_HANDLES, channel, callVars, playVars,
                   nCalls, startHist, runHist, window>>

\* record_event, line 127: if !IS_LISTENING.load() { return; }
record_event_load ==
    /\ listener = "rec_load"
    /\ IF ~IS_LISTENING
       THEN listener' = "listening" /\ cur' = NoEvent /\ readTrue' = readTrue
       ELSE listener' = "rec_lock" /\ cur' = cur /\ readTrue' = readTrue \cup {cur.id}
    /\ UNCHANGED <<flags, RECORDER, mutex, THREAD_HANDLES, channel, callVars, playVars,
                   otherHist, appended>>

\* record_event, line 129: RECORDER.lock()
record_event_lock ==
    /\ listener = "rec_lock"
    /\ mutex = "free"
    /\ mutex' = "listener"
    /\ listener' = "rec_push"
    /\ UNCHANGED <<flags, RECORDER, THREAD_HANDLES, channel, cur, callVars, playVars, histVars>>

\* record_event, line 130: events.push(event.clone()); the guard drops on return.
record_event_push ==
    /\ listener = "rec_push"
    /\ RECORDER' = Append(RECORDER, cur)
    /\ appended' = Append(appended, cur)
    /\ mutex' = "free"
    /\ listener' = "listening"
    /\ cur' = NoEvent
    /\ UNCHANGED <<flags, THREAD_HANDLES, channel, callVars, playVars, otherHist, readTrue>>

\* listen() returns (Ok or Err): the closure of listen_keyboard ends.
listen_keyboard_exit ==
    /\ listener = "listening"
    /\ listener' = "finished"
    /\ UNCHANGED <<flags, RECORDER, mutex, THREAD_HANDLES, channel, cur, callVars, playVars,
                   histVars>>

\* ---------------------------------------------------------------- calls
Max(a, b) == IF a > b THEN a ELSE b

\* No thread but t is inside an operation.
OthersIdle(t) == \A u \in Threads \ {t} : pc[u] = "idle"

\* Nothing but thread t is inside an operation or inside record_event.
Quiet(t) == OthersIdle(t) /\ listener \in {"listening", "finished"}

\* A thread enters an operation.
Enter(t, o) ==
    /\ pc[t] = "idle"
    /\ nCalls < MaxCalls
    /\ nCalls' = nCalls + 1
    /\ op' = [op EXCEPT ![t] = o]
    /\ floor' = [floor EXCEPT ![t] = IF o = "playback" THEN cut.old ELSE 0]
    /\ stopDuring' = [u \in Threads |->
                        IF u = t THEN FALSE
                        ELSE stopDuring[u] \/ (o = "stop_listen" /\ pc[u] \in PlayingPcs)]
    /\ streak' = IF o = "stop_listen" /\ Quiet(t)
                 THEN IF streak.n \in {2, 4}
                      THEN [streak EXCEPT !.n = 3]
                      ELSE [NoStreak EXCEPT !.n = 1]
                 ELSE NoStreak

\* The operation returns v to its caller.
Return(t, v) ==
    /\ pc' = [pc EXCEPT ![t] = "done"]
    /\ ret' = [ret EXCEPT ![t] = v]

\* The caller takes the result: the tauri command answers the shell, the loop of
\* register_hotkey_action (line 149) goes back to recv().  The frame is gone.
resume(t) ==
    /\ pc[t] = "done"
    /\ pc' = [pc EXCEPT ![t] = "idle"]
    /\ op' = [op EXCEPT ![t] = "none"]
    /\ ret' = [ret EXCEPT ![t] = FALSE]
    /\ events' = [events EXCEPT ![t] = << >>]
    /\ idx' = [idx EXCEPT ![t] = 0]
    /\ last_event_time' = [last_event_time EXCEPT ![t] = 0]
    /\ floor' = [floor EXCEPT ![t] = 0]
    /\ played' = [played EXCEPT ![t] = << >>]
    /\ failedAt' = [failedAt EXCEPT ![t] = 0]
    /\ haltedAt' = [haltedAt EXCEPT ![t] = 0]
    /\ stopDuring' = [stopDuring EXCEPT ![t] = FALSE]
    /\ synthAfter' = [synthAfter EXCEPT ![t] = 0]
    /\ UNCHANGED <<moreHist, flags, RECORDER, mutex, THREAD_HANDLES, channel, lstVars,
                   delivVars, nCalls,
                   startHist, window, streak>>


\* start_listen, line 176: STOP_PLAYBACK.store(false)
start_listen(t) ==
    /\ Enter(t, "start_listen")
    /\ STOP_PLAYBACK' = FALSE
    /\ pc' = [pc EXCEPT ![t] = "sl_listen"]
    /\ myCut' = [myCut EXCEPT ![t] = [n |-> nDelivered, old |-> RECORDER # << >>]]
    /\ window' = IF \E u \in Threads \ {t} : pc[u] \in StartPcs THEN "raced" ELSE "none"
    /\ pressLog' = << >>
    /\ readTrue' = {}
    /\ UNCHANGED <<appended, IS_LISTENING, RECORDER, mutex, THREAD_HANDLES, lstVars, ret, playVars,
                   nDelivered, cut, played, failedAt, haltedAt, synthAfter>>

\* Faulty variant: the flag is toggled (fetch_xor) instead of set.
start_listen_toggle(t) ==
    /\ pc[t] = "sl_listen"
    /\ IS_LISTENING' = ~IS_LISTENING
    /\ pc' = [pc EXCEPT ![t] = "sl_lock"]
    /\ UNCHANGED <<STOP_PLAYBACK, RECORDER, mutex, THREAD_HANDLES, channel, lstVars, op, ret,
                   playVars, histVars>>

\* start_listen, line 177: IS_LISTENING.store(true)
start_listen_store(t) ==
    /\ pc[t] = "sl_listen"
    /\ IS_LISTENING' = TRUE
    /\ pc' = [pc EXCEPT ![t] = "sl_lock"]
    /\ UNCHANGED <<STOP_PLAYBACK, RECORDER, mutex, THREAD_HANDLES, channel, lstVars, op, ret,
                   playVars, histVars>>

\* start_listen, line 178: RECORDER.lock()
start_listen_lock(t) ==
    /\ pc[t] = "sl_lock"
    /\ mutex = "free"
    /\ mutex' = t
    /\ pc' = [pc EXCEPT ![t] = "sl_clear"]
    /\ UNCHANGED <<flags, RECORDER, THREAD_HANDLES, channel, lstVars, op, ret, playVars, histVars>>

\* start_listen, line 178: .events.clear(); the temporary guard drops.
start_listen_clear(t) ==
    /\ pc[t] = "sl_clear"
    /\ RECORDER' = << >>
    /\ appended' = << >>
    /\ mutex' = "free"
    /\ pc' = [pc EXCEPT ![t] = "sl_ret"]
    /\ UNCHANGED <<flags, THREAD_HANDLES, channel, lstVars, op, ret, playVars, otherHist, readTrue>>

\* start_listen, line 180: IS_LISTENING.load() is the return value.
start_listen_ret(t) ==
    /\ pc[t] = "sl_ret"
    /\ Return(t, IS_LISTENING)
    /\ cut' = [all |-> Max(cut.all, myCut[t].n),
               old |-> IF myCut[t].old THEN Max(cut.old, myCut[t].n) ELSE cut.old]
    /\ myCut' = [myCut EXCEPT ![t] = NoCut]
    /\ window' = IF OthersIdle(t) THEN "open"
                  ELSE IF window = "raced" THEN "raced" ELSE "none"
    /\ pressLog' = << >>
    /\ UNCHANGED <<moreHist, flags, RECORDER, mutex, THREAD_HANDLES, channel, lstVars, op, playVars,
                   nDelivered, nCalls, runHist, streak>>

\* stop_listen, line 185: STOP_PLAYBACK.store(true)
stop_listen(t) ==
    /\ Enter(t, "stop_listen")
    /\ STOP_PLAYBACK' = TRUE
    /\ pc' = [pc EXCEPT ![t] = "st_listen"]
    /\ window' = IF window = "open" /\ Quiet(t) THEN "closed" ELSE "none"
    /\ UNCHANGED <<moreHist, IS_LISTENING, RECORDER, mutex, THREAD_HANDLES, lstVars, ret, playVars,
                   delivVars, startHist, played, failedAt, haltedAt, synthAfter>>

\* Faulty variant: the flag is toggled (fetch_xor) instead of cleared.
stop_listen_toggle(t) ==
    /\ pc[t] = "st_listen"
    /\ IS_LISTENING' = ~IS_LISTENING
    /\ pc' = [pc EXCEPT ![t] = "st_ret"]
    /\ UNCHANGED <<STOP_PLAYBACK, RECORDER, mutex, THREAD_HANDLES, channel, lstVars, op, ret,
                   playVars, histVars>>

\* stop_listen, line 186: IS_LISTENING.store(false)
stop_listen_store(t) ==
    /\ pc[t] = "st_listen"
    /\ IS_LISTENING' = FALSE
    /\ pc' = [pc EXCEPT ![t] = "st_ret"]
    /\ UNCHANGED <<STOP_PLAYBACK, RECORDER, mutex, THREAD_HANDLES, channel, lstVars, op, ret,
                   playVars, histVars>>

\* stop_listen, line 188: IS_LISTENING.load() is the return value.
stop_listen_ret(t) ==
    /\ pc[t] = "st_ret"
    /\ Return(t, IS_LISTENING)
    /\ streak' = IF streak.n = 1
                 THEN [n |-> 2, first |-> IS_LISTENING, second |-> FALSE, st |-> Shared]
                 ELSE IF streak.n = 3
                 THEN [streak EXCEPT !.n = 4, !.second = IS_LISTENING]
                 ELSE NoStreak
    /\ UNCHANGED <<moreHist, flags, RECORDER, mutex, THREAD_HANDLES, channel, lstVars, op, playVars,
                   delivVars, nCalls, startHist, runHist, window>>

\* ---------------------------------------------------------------- playback
\* simulate(&EventType): the OS either accepts the event or reports an error.
simulate(ok) == IF ok THEN "Ok" ELSE "Err"

\* _play_key_press / _play_key_release: both arms of the match only print.
\* The value is the first loop index whose synthesis failed (0: none so far).
_play_key(result, i, bad) == IF result = "Err" /\ bad = 0 THEN i ELSE bad

\* playback is called.
playback(t) ==
    /\ Enter(t, "playback")
    /\ pc' = [pc EXCEPT ![t] = "pb_lock"]
    /\ UNCHANGED <<moreHist, flags, RECORDER, mutex, THREAD_HANDLES, lstVars, ret, playVars,
                   delivVars, startHist, window, played, failedAt, haltedAt, synthAfter>>

\* playback, line 207: RECORDER.lock()
playback_lock(t) ==
    /\ pc[t] = "pb_lock"
    /\ mutex = "free"
    /\ mutex' = t
    /\ pc' = [pc EXCEPT ![t] = "pb_clone"]
    /\ UNCHANGED <<flags, RECORDER, THREAD_HANDLES, channel, lstVars, op, ret, playVars, histVars>>

\* Faulty variant: the empty snapshot is reported as a halted playback (return true).
playback_clone_empty_true(t) ==
    /\ pc[t] = "pb_clone"
    /\ events' = [events EXCEPT ![t] = RECORDER]
    /\ mutex' = "free"
    /\ IF RECORDER = << >>
       THEN Return(t, TRUE)
       ELSE pc' = [pc EXCEPT ![t] = "pb_settle"] /\ ret' = ret
    /\ UNCHANGED <<flags, RECORDER, THREAD_HANDLES, channel, lstVars, op, idx, last_event_time,
                   histVars>>

\* Faulty variant: the events are moved out of the Recording (mem::take), not cloned.
playback_clone_take(t) ==
    /\ pc[t] = "pb_clone"
    /\ events' = [events EXCEPT ![t] = RECORDER]
    /\ RECORDER' = << >>
    /\ mutex' = "free"
    /\ IF RECORDER = << >>
       THEN Return(t, FALSE)
       ELSE pc' = [pc EXCEPT ![t] = "pb_settle"] /\ ret' = ret
    /\ UNCHANGED <<flags, THREAD_HANDLES, channel, lstVars, op, idx, last_event_time,
                   histVars>>

\* Faulty variant: the guard is bound to a local and lives to the end of playback.
playback_clone_keep_guard(t) ==
    /\ pc[t] = "pb_clone"
    /\ events' = [events EXCEPT ![t] = RECORDER]
    /\ IF RECORDER = << >>
       THEN Return(t, FALSE) /\ mutex' = "free"
       ELSE pc' = [pc EXCEPT ![t] = "pb_settle"] /\ ret' = ret /\ mutex' = mutex
    /\ UNCHANGED <<flags, RECORDER, THREAD_HANDLES, channel, lstVars, op, idx, last_event_time,
                   histVars>>

\* playback, lines 207-210: events.clone(), the guard drops;
\* if events.is_empty() { return false; }
playback_clone(t) ==
    /\ pc[t] = "pb_clone"
    /\ events' = [events EXCEPT ![t] = RECORDER]
    /\ mutex' = "free"
    /\ IF RECORDER = << >>
       THEN Return(t, FALSE)
       ELSE pc' = [pc EXCEPT ![t] = "pb_settle"] /\ ret' = ret
    /\ UNCHANGED <<flags, RECORDER, THREAD_HANDLES, channel, lstVars, op, idx, last_event_time,
                   histVars>>

\* playback, lines 212-217: sleep(Duration::from_millis(250));
\* STOP_PLAYBACK.store(false); last_event_time = events[0].time; iterator created.
playback_settle(t) ==
    /\ pc[t] = "pb_settle"
    /\ STOP_PLAYBACK' = FALSE
    /\ last_event_time' = [last_event_time EXCEPT ![t] = events[t][1].time]
    /\ idx' = [idx EXCEPT ![t] = 1]
    /\ pc' = [pc EXCEPT ![t] = "pb_check"]
    /\ UNCHANGED <<IS_LISTENING, RECORDER, mutex, THREAD_HANDLES, channel, lstVars, op, ret,
                   events, histVars>>

\* Faulty variant: the loop breaks without setting is_stop.
playback_check_no_flag(t) ==
    /\ pc[t] = "pb_check"
    /\ IF STOP_PLAYBACK
       THEN Return(t, FALSE) /\ haltedAt' = [haltedAt EXCEPT ![t] = idx[t]]
       ELSE pc' = [pc EXCEPT ![t] = "pb_sleep"] /\ ret' = ret /\ haltedAt' = haltedAt
    /\ UNCHANGED <<moreHist, flags, RECORDER, mutex, THREAD_HANDLES, channel, lstVars, op, playVars,
                   delivVars, nCalls, startHist, floor, played, failedAt, stopDuring,
                   synthAfter, window, streak>>

\* playback, line 219: if STOP_PLAYBACK.load() { is_stop = true; break; }
playback_check(t) ==
    /\ pc[t] = "pb_check"
    /\ IF STOP_PLAYBACK
       THEN Return(t, TRUE) /\ haltedAt' = [haltedAt EXCEPT ![t] = idx[t]]
       ELSE pc' = [pc EXCEPT ![t] = "pb_sleep"] /\ ret' = ret /\ haltedAt' = haltedAt
    /\ UNCHANGED <<moreHist, flags, RECORDER, mutex, THREAD_HANDLES, channel, lstVars, op, playVars,
                   delivVars, nCalls, startHist, floor, played, failedAt, stopDuring,
                   synthAfter, window, streak>>

\* Faulty variant: an Err of simulate() ends the playback as if it had been halted.
playback_sleep_fatal(t) ==
    /\ pc[t] = "pb_sleep"
    /\ LET event == events[t][idx[t]]
           delay == unwrap_or_default(duration_since(event.time, last_event_time[t]))
       IN  /\ played' = [played EXCEPT ![t] = Append(@, [id |-> event.id, delay |-> delay])]
           /\ \E ok \in BOOLEAN :
                /\ failedAt' = [failedAt EXCEPT ![t] =
                                  IF event.kind \in {"KeyPress", "KeyRelease"}
                                  THEN _play_key(simulate(ok), idx[t], @)
                                  ELSE @]
                /\ IF idx[t] = Len(events[t]) /\ ok
                   THEN Return(t, FALSE)
                   ELSE IF ~ok
                   THEN Return(t, TRUE)
                   ELSE pc' = [pc EXCEPT ![t] = "pb_check"] /\ ret' = ret
           /\ last_event_time' = [last_event_time EXCEPT ![t] = event.time]
    /\ synthAfter' = [synthAfter EXCEPT ![t] = IF stopDuring[t] THEN @ + 1 ELSE @]
    /\ idx' = [idx EXCEPT ![t] = @ + 1]
    /\ UNCHANGED <<moreHist, flags, RECORDER, mutex, THREAD_HANDLES, channel, lstVars, op, events,
                   delivVars, nCalls, startHist, floor, haltedAt, stopDuring, window, streak>>

\* playback, lines 222-236: delay = event.time.duration_since(last_event_time)
\* .unwrap_or_default(); sleep(delay); the match synthesizes the event;
\* last_event_time is updated; the iterator yields the next event or ends the
\* loop (return is_stop, still false).
playback_sleep(t) ==
    /\ pc[t] = "pb_sleep"
    /\ LET event == events[t][idx[t]]
           delay == unwrap_or_default(duration_since(event.time, last_event_time[t]))
       IN  /\ played' = [played EXCEPT ![t] = Append(@, [id |-> event.id, delay |-> delay])]
           /\ \E ok \in BOOLEAN :
                failedAt' = [failedAt EXCEPT ![t] =
                               IF event.kind \in {"KeyPress", "KeyRelease"}
                               THEN _play_key(simulate(ok), idx[t], @)
                               ELSE @]
           /\ last_event_time' = [last_event_time EXCEPT ![t] = event.time]
    /\ synthAfter' = [synthAfter EXCEPT ![t] = IF stopDuring[t] THEN @ + 1 ELSE @]
    /\ idx' = [idx EXCEPT ![t] = @ + 1]
    /\ IF idx[t] = Len(events[t])
       THEN Return(t, FALSE)
       ELSE pc' = [pc EXCEPT ![t] = "pb_check"] /\ ret' = ret
    /\ UNCHANGED <<moreHist, flags, RECORDER, mutex, THREAD_HANDLES, channel, lstVars, op, events,
                   delivVars, nCalls, startHist, floor, haltedAt, stopDuring, window, streak>>

\* ---------------------------------------------------------------- status
\* Faulty variant: the negation of is_finished() is missing.
check_keyboard_status_finished(handles, state) ==
    IF handles = "Some" THEN state = "finished" ELSE FALSE

\* check_keyboard_status: Some((keyboard_handle, _)) => !is_finished(), None => false
check_keyboard_status(handles, state) ==
    IF handles = "Some" THEN state # "finished" ELSE FALSE

\* ---------------------------------------------------------------- tauri commands
start_record == start_listen("shell") /\ UNCHANGED channel

stop_record == stop_listen("shell") /\ UNCHANGED channel

play_record == playback("shell") /\ UNCHANGED channel

keyboard_status ==
    /\ Enter("shell", "keyboard_status")
    /\ Return("shell", check_keyboard_status(THREAD_HANDLES, listener))
    /\ UNCHANGED <<moreHist, flags, RECORDER, mutex, THREAD_HANDLES, channel, lstVars,
                   playVars, delivVars,
                   startHist, window, played, failedAt, haltedAt, synthAfter>>

\* ---------------------------------------------------------------- hot keys
\* register_hotkey_action, lines 152-156: a press is dispatched to the operation
\* of its chord, which runs inline on the hot-key thread; any other
\* notification is dropped.
hotkey_dispatch(chord, state) ==
    IF state = "Pressed"
    THEN CASE chord = "record_hotkey"   -> start_listen("hotkey")
           [] chord = "stop_hotkey"     -> stop_listen("hotkey")
           [] chord = "playback_hotkey" -> playback("hotkey")
    ELSE UNCHANGED <<progVars, histVars>>

\* register_hotkey_action, lines 149-160, the notification arriving while the
\* thread waits in recv(): it is received at once.
register_hotkey_action(chord, state) ==
    /\ pc["hotkey"] = "idle"
    /\ channel = << >>
    /\ hotkey_dispatch(chord, state)
    /\ UNCHANGED channel

\* The presses among the notifications q.
Presses(q) == SelectSeq(q, LAMBDA n : n.state = "Pressed")

\* The global-hotkey crate sends a notification into the channel whatever the
\* hot-key thread is doing.
GlobalHotKeyEvent_send(chord, state) ==
    /\ pc["hotkey"] # "unspawned"
    /\ Len(channel) < MaxPending
    /\ state = "Pressed" => nCalls + Len(Presses(channel)) < MaxCalls
    /\ channel' = Append(channel, [id |-> chord, state |-> state])
    /\ UNCHANGED <<progVars, histVars>>

\* Faulty variant: the newest notification is taken first.
recv_newest(q) == [event |-> q[Len(q)], rest |-> SubSeq(q, 1, Len(q) - 1)]

\* Receiver::recv on a non-empty channel: the oldest notification.
recv(q) == [event |-> Head(q), rest |-> Tail(q)]

\* register_hotkey_action, lines 149-160, a notification waiting in the channel:
\* the loop is back at recv() only when the operation it called has returned.
register_hotkey_loop ==
    /\ pc["hotkey"] = "idle"
    /\ channel # << >>
    /\ LET r == recv(channel) IN
         /\ hotkey_dispatch(r.event.id, r.event.state)
         /\ channel' = r.rest

\* ---------------------------------------------------------------- specification
Next ==
    \/ run
    \/ \E kind \in EventKinds, time \in Times : callback(kind, time)
    \/ record_event_load
    \/ record_event_lock
    \/ record_event_push
    \/ listen_keyboard_exit
    \/ start_record
    \/ stop_record
    \/ play_record
    \/ keyboard_status
    \/ \E chord \in Chords, state \in HotKeyStates : register_hotkey_action(chord, state)
    \/ \E t \in Threads :
         \/ start_listen_store(t)
         \/ start_listen_lock(t)
         \/ start_listen_clear(t)
         \/ start_listen_ret(t)
         \/ stop_listen_store(t)
         \/ stop_listen_ret(t)
         \/ playback_lock(t)
         \/ playback_clone(t)
         \/ playback_settle(t)
         \/ playback_check(t)
         \/ playback_sleep(t)
         \/ resume(t)

Spec == Init /\ [][Next]_vars

\* The hot-key thread with its channel, and the listener; no shell command.
HotkeyNext ==
    \/ run
    \/ \E kind \in EventKinds, time \in Times : callback(kind, time)
    \/ record_event_load
    \/ record_event_lock
    \/ record_event_push
    \/ listen_keyboard_exit
    \/ \E chord \in Chords, state \in HotKeyStates : GlobalHotKeyEvent_send(chord, state)
    \/ register_hotkey_loop
    \/ \E t \in Threads :
         \/ start_listen_store(t)
         \/ start_listen_lock(t)
         \/ start_listen_clear(t)
         \/ start_listen_ret(t)
         \/ stop_listen_store(t)
         \/ stop_listen_ret(t)
         \/ playback_lock(t)
         \/ playback_clone(t)
         \/ playback_settle(t)
         \/ playback_check(t)
         \/ playback_sleep(t)
         \/ resume(t)

SpecHotkeys == Init /\ [][HotkeyNext]_vars

\* ---------------------------------------------------------------- properties
Done(t, o) == pc[t] = "done" /\ op[t] = o

\* The delay the claim C9 states for the i-th event of a snapshot.
StatedDelay(snap, i) ==
    IF i = 1 THEN 0
    ELSE IF snap[i].time - snap[i - 1].time > 0
         THEN snap[i].time - snap[i - 1].time
         ELSE 0

\* e is one of the key presses delivered while the window was open.
InPressLog(e) == \E i \in 1..Len(pressLog) : pressLog[i] = e

\* C1: a stop_record invoked while a play_record call on a non-empty Recording
\* is between its snapshot and its return makes that call return true after
\* synthesizing at most one more event.
C1_StopHaltsPlayback ==
    \A t \in Threads :
        (Done(t, "playback") /\ stopDuring[t]) => (ret[t] = TRUE /\ synthAfter[t] <= 1)

\* C2: after start_record returned, N key presses were delivered (their
\* callbacks finished) and stop_record was then called and has returned: the
\* Recording is exactly those N key presses, in delivery order, unaltered.
\* Stated in its weakest reading: a key press delivered while start_record was
\* still running may or may not be in the Recording; one delivered before
\* start_record was called may not.
C2_RecordingIsSession ==
    \A t \in Threads :
        (Done(t, "stop_listen") /\ window = "closed" /\ Quiet(t)) =>
            /\ SelectSeq(RECORDER, InPressLog) = pressLog
            /\ \A i \in 1..Len(RECORDER) :
                   RECORDER[i].kind = "KeyPress" /\ RECORDER[i].id > cut.all

\* C3: the snapshot of a play_record that began after a start_record on a
\* non-empty Recording returned holds no event delivered before that
\* start_record was called.
C3_SnapshotIsNewSession ==
    \A t \in Threads :
        (pc[t] \in PlayingPcs \cup {"done"} /\ op[t] = "playback") =>
            \A i \in 1..Len(events[t]) : events[t][i].id > floor[t]

\* C4: play_record on an empty Recording returns false and synthesizes nothing,
\* whatever the two flags are.
C4_EmptyPlaybackIsNoOp ==
    \A t \in Threads :
        (Done(t, "playback") /\ events[t] = << >>) =>
            (ret[t] = FALSE /\ played[t] = << >> /\ haltedAt[t] = 0)

C4_Witness ==
    \E t \in Threads :
        Done(t, "playback") /\ events[t] = << >> /\ IS_LISTENING /\ ~STOP_PLAYBACK

\* C5: play_record returns false exactly when it attempted every event of its
\* snapshot (or the snapshot was empty) and true exactly when it read
\* STOP_PLAYBACK as true at an event's checkpoint; that event and the later
\* ones are then not synthesized.
C5_ReturnValueOfPlayback ==
    \A t \in Threads :
        Done(t, "playback") =>
            /\ (ret[t] = FALSE) <=> (Len(played[t]) = Len(events[t]))
            /\ (ret[t] = TRUE) <=> (haltedAt[t] # 0)
            /\ haltedAt[t] # 0 =>
                   /\ haltedAt[t] \in 1..Len(events[t])
                   /\ Len(played[t]) = haltedAt[t] - 1
            /\ \A i \in 1..Len(played[t]) : played[t][i].id = events[t][i].id

C5_Witness ==
    \E t \in Threads :
        /\ Done(t, "playback") /\ ret[t] = TRUE
        /\ haltedAt[t] = 2 /\ Len(events[t]) >= 2 /\ Len(played[t]) = 1

\* C6: every start_record call returns true and every stop_record call returns
\* false.
C6_StartTrueStopFalse ==
    \A t \in Threads :
        /\ Done(t, "start_listen") => ret[t] = TRUE
        /\ Done(t, "stop_listen") => ret[t] = FALSE

\* C7: two stop_record calls in a row with nothing in between both return
\* false, and the flags and the Recording after the second call are those after
\* the first (recording-active false, playback-stop-requested true).
C7_StopTwice ==
    streak.n = 4 =>
        /\ streak.first = FALSE
        /\ streak.second = FALSE
        /\ Shared = streak.st
        /\ IS_LISTENING = FALSE
        /\ STOP_PLAYBACK = TRUE

C7_Witness == streak.n = 4 /\ RECORDER # << >>

\* C8: keyboard_status returns true exactly when the listener thread has been
\* started and has not finished, and a finished listener never runs again.
C8_KeyboardStatus ==
    [][ /\ (pc["shell"] = "idle" /\ Done("shell", "keyboard_status")') =>
            (ret'["shell"] = (THREAD_HANDLES = "Some" /\ listener # "finished"))
        /\ (listener = "finished" => listener' = "finished")
        /\ (THREAD_HANDLES = "Some" => THREAD_HANDLES' = "Some") ]_vars

C8_Witness ==
    Done("shell", "keyboard_status") /\ ret["shell"] = FALSE /\ listener = "finished"

\* C9: a playback synthesizes the events of its snapshot in capture order; it
\* sleeps 0 before the first one and max(0, t(i) - t(i-1)) before the i-th.
C9_DelaysFollowPreviousEvent ==
    \A t \in Threads :
        op[t] = "playback" =>
            \A i \in 1..Len(played[t]) :
                /\ played[t][i].id = events[t][i].id
                /\ played[t][i].delay = StatedDelay(events[t], i)

C9_Witness ==
    \E t \in Threads :
        /\ Done(t, "playback") /\ ret[t] = FALSE
        /\ Len(events[t]) = 3
        /\ <<events[t][1].time, events[t][2].time, events[t][3].time>> = <<1, 0, 1>>
        /\ <<played[t][1].delay, played[t][2].delay, played[t][3].delay>> = <<0, 0, 1>>

\* C10: a failed synthesis does not end the playback: the later events are
\* still attempted unless a stop is read, and the return value is what it is
\* without the failure.
C10_FailureIsNotFatal ==
    \A t \in Threads :
        (Done(t, "playback") /\ failedAt[t] # 0) =>
            /\ (ret[t] = TRUE) <=> (haltedAt[t] # 0)
            /\ haltedAt[t] = 0 => Len(played[t]) = Len(events[t])
            /\ haltedAt[t] # 0 => (haltedAt[t] > failedAt[t] /\ Len(played[t]) = haltedAt[t] - 1)

C10_Witness ==
    \E t \in Threads :
        /\ Done(t, "playback") /\ ret[t] = FALSE
        /\ failedAt[t] = 1 /\ Len(events[t]) >= 2 /\ Len(played[t]) = Len(events[t])

\* A session was ended: a stop_listen that began after a start_listen had
\* returned has itself returned, and no start_listen or stop_listen began since.
Frozen == window = "closed" /\ \A t \in Threads : pc[t] \notin {"st_listen", "st_ret"}

\* C11: from the moment a stop_record call returns until the next start_record
\* call begins, nothing modifies the Recording, however the listener's callback
\* interleaves with the caller of stop_record.
C11_FrozenAtStop == [][Frozen => RECORDER' = RECORDER]_vars

\* C12: a callback that reads IS_LISTENING false returns without touching the
\* Recording or the two flags, and the only events ever appended to the
\* Recording are key presses: the other kinds leave it as it is, also while
\* IS_LISTENING is true.
C12_DroppedEventsAreNoOps ==
    [][ /\ (listener = "rec_load" /\ ~IS_LISTENING /\ listener' # listener) =>
            (listener' = "listening" /\ RECORDER' = RECORDER /\ flags' = flags)
        /\ (RECORDER' # RECORDER /\ RECORDER' # << >>) =>
            (listener = "rec_push" /\ cur.kind = "KeyPress"
             /\ RECORDER' = Append(RECORDER, cur)) ]_vars

\* The first key press was recorded; the second one was delivered later, its
\* callback has returned and the Recording is as it was.
C12_Witness ==
    /\ listener = "listening" /\ nDelivered = 2
    /\ Len(RECORDER) = 1 /\ RECORDER[1].id = 1
    /\ ~IS_LISTENING

\* The lock of RECORDER is held exactly at the positions between a lock() and
\* the drop of its guard.
LockHeldWhereTaken ==
    /\ mutex = "listener" <=> listener = "rec_push"
    /\ \A t \in Threads : mutex = t <=> pc[t] \in {"sl_clear", "pb_clone"}

\* C13: no thread holds the lock of the Recording while it sleeps (settle
\* delay, delay between events) or calls simulate(), and every read, append
\* and clear of the Recording is made by the thread that holds the lock.
C13_LockDiscipline ==
    [][ /\ LockHeldWhereTaken /\ LockHeldWhereTaken'
        /\ \A t \in Threads : pc[t] \in PlayingPcs => mutex # t
        /\ RECORDER' # RECORDER =>
              \/ mutex = "listener" /\ listener = "rec_push" /\ listener' = "listening"
              \/ \E t \in Threads : mutex = t /\ pc[t] = "sl_clear" /\ pc'[t] = "sl_ret"
        /\ \A t \in Threads :
              (events'[t] # events[t] /\ pc[t] # "done") => (mutex = t /\ events'[t] = RECORDER)
      ]_vars

\* A playback is in its loop, without the lock, while the listener appends with it.
C13_Witness ==
    \E t \in Threads : pc[t] = "pb_sleep" /\ mutex = "listener" /\ idx[t] > 1

\* The operation a press of the chord is dispatched to.
OperationOf(chord) ==
    CASE chord = "record_hotkey"   -> "start_listen"
      [] chord = "stop_hotkey"     -> "stop_listen"
      [] chord = "playback_hotkey" -> "playback"

\* C14: the hot-key thread handles the presses one at a time in arrival order:
\* notifications join the channel at its end, an operation begins on the
\* hot-key thread only when its previous one has returned and is the operation
\* of the oldest waiting notification, a release is taken from the channel
\* with no other change, and while a playback runs on the hot-key thread that
\* thread stores nothing into the flags but the false of playback's line 213
\* (a stop or record chord pressed meanwhile waits in the channel).
C14_HotkeysInArrivalOrder ==
    [][ /\ channel' # channel =>
              \/ \E n \in [id : Chords, state : HotKeyStates] : channel' = Append(channel, n)
              \/ /\ pc["hotkey"] = "idle"
                 /\ channel' = Tail(channel)
                 /\ Head(channel).state = "Released" => UNCHANGED <<progVars, histVars>>
        /\ (pc["hotkey"] = "idle" /\ pc'["hotkey"] # "idle" /\ channel # << >>) =>
              /\ Head(channel).state = "Pressed"
              /\ channel' = Tail(channel)
              /\ op'["hotkey"] = OperationOf(Head(channel).id)
        /\ (pc["hotkey"] \in PlayingPcs /\ pc'["hotkey"] # pc["hotkey"]) =>
              /\ IS_LISTENING' = IS_LISTENING
              /\ STOP_PLAYBACK' = STOP_PLAYBACK \/ (pc["hotkey"] = "pb_settle" /\ ~STOP_PLAYBACK')
      ]_vars

\* The stop chord was pressed and released and both notifications still wait,
\* in that order, when the playback of the hot-key thread has played everything.
C14_Witness ==
    /\ Done("hotkey", "playback") /\ ret["hotkey"] = FALSE /\ played["hotkey"] # << >>
    /\ channel = << [id |-> "stop_hotkey", state |-> "Pressed"],
                    [id |-> "stop_hotkey", state |-> "Released"] >>

\* C15: when start_record calls ran at the same time (and no stop_record or
\* play_record with them), once all have returned IS_LISTENING is true,
\* STOP_PLAYBACK is false and the Recording is what was appended after the last
\* clear, nothing when no key press was delivered; the same in every order of
\* the steps of the calls.
C15_ConcurrentStarts ==
    (\A t \in Threads : Done(t, "start_listen")) =>
        /\ IS_LISTENING = TRUE
        /\ STOP_PLAYBACK = FALSE
        /\ RECORDER = appended
        /\ nDelivered = 0 => RECORDER = << >>

\* Two start_listen calls, the only calls so far, overlapped and have both
\* returned; one event was pushed between the two clears, one after them.
C15_Witness ==
    /\ \A t \in Threads : Done(t, "start_listen")
    /\ window = "raced" /\ nCalls = 2
    /\ nDelivered = 2 /\ listener = "listening"
    /\ Len(RECORDER) = 1 /\ RECORDER[1].id = 2

\* C16: the resting value of STOP_PLAYBACK is true: whenever no operation is
\* running on any thread and IS_LISTENING is false, STOP_PLAYBACK is true, also
\* after a playback that played every event.
C16_StopFlagRestsTrue ==
    ((\A t \in Threads : pc[t] \in {"unspawned", "idle", "done"}) /\ ~IS_LISTENING) =>
        STOP_PLAYBACK = TRUE

\* The positions of a playback call, from its call to its return.
PlaybackPcs == {"pb_lock", "pb_clone"} \cup PlayingPcs

\* The events synthesized so far are the first ones of the snapshot, in order.
PlayedIsPrefix(t) ==
    /\ Len(played[t]) <= Len(events[t])
    /\ \A i \in 1..Len(played[t]) : played[t][i].id = events[t][i].id

\* C17: what a play_record run synthesizes is always a prefix of the Recording
\* as it was when the run took its snapshot: the snapshot is the Recording of
\* that instant, no clear or append made while the run is in progress changes
\* it, each synthesis is that of the next event of the snapshot, and no step
\* of the run changes the Recording.
C17_PlaysItsSnapshot ==
    [][ \A t \in Threads :
          /\ (pc[t] = "pb_clone" /\ pc'[t] # "pb_clone") => events'[t] = RECORDER
          /\ pc[t] \in PlayingPcs => events'[t] = events[t]
          /\ (pc[t] \in PlaybackPcs /\ pc'[t] # pc[t]) => RECORDER' = RECORDER
          /\ (pc[t] \in PlaybackPcs /\ played'[t] # played[t]) =>
                /\ Len(played[t]) < Len(events[t])
                /\ Len(played'[t]) = Len(played[t]) + 1
                /\ played'[t][Len(played'[t])].id = events[t][Len(played[t]) + 1].id
          /\ (op[t] = "playback" => PlayedIsPrefix(t))
          /\ (op'[t] = "playback" => PlayedIsPrefix(t)')
      ]_vars

\* A playback has played its whole snapshot of two events although the
\* Recording was cleared by a start_listen during the run.
C17_Witness ==
    \E t \in Threads :
        /\ Done(t, "playback") /\ Len(events[t]) = 2 /\ Len(played[t]) = 2
        /\ RECORDER = << >> /\ IS_LISTENING

\* C18: recording and playback exclude each other: no playback synthesizes an
\* event in a state where IS_LISTENING is true.
C18_NoSynthesisWhileRecording ==
    [][ \A t \in Threads :
          (pc[t] = "pb_sleep" /\ played'[t] # played[t]) => ~IS_LISTENING ]_vars

\* C19: no key press is lost during a session: when the stop_record that ends
\* the session has returned and the listener is in no callback, every key press
\* whose callback read IS_LISTENING true since the session's start_record was
\* called is in the Recording.
C19_NoKeyPressLost ==
    \A t \in Threads :
        (Done(t, "stop_listen") /\ window = "closed" /\ Quiet(t)) =>
            \A id \in readTrue : \E i \in 1..Len(RECORDER) : RECORDER[i].id = id

\* C20: at most one playback is in progress at any time: the events
\* synthesized by the play_record of the shell and by the playback of the
\* hot-key thread never interleave, that is, no run synthesizes an event while
\* another run has synthesized one and has more to go.
C20_PlaybacksNeverInterleave ==
    [][ \A t, u \in Threads :
          (t # u /\ pc[t] \in {"pb_check", "pb_sleep"} /\ played[t] # << >>) =>
              played'[u] = played[u] \/ pc[u] # "pb_sleep" ]_vars

====
